---- MODULE Spec2Model ----
(***************************************************************************)
(* Stabilizer-tableau simulator (circus): the tableau of State, the row    *)
(* algebra, the three gate transforms, measure, nonzero and ket.           *)
(*                                                                         *)
(* A storage word (u64, of which only bits 0..31 are ever addressed through *)
(* PW) is modelled as the set of positions of its set bits; a row of a     *)
(* BinaryMatrix is the set of positions 32*j+l of the set bits of its      *)
(* over32 words.  Phases are i32 values.                                   *)
(***************************************************************************)
EXTENDS Integers, Sequences, FiniteSets, TLC

\* ---------------------------------------------------------------- bounds
MaxN == 2
MaxSteps == 5

\* ------------------------------------------------------- program constants
\* PW has 32 entries: 32 logical bits per storage word.
PWLen == 32
\* Width of the storage word (u64).
WordBits == 64

\* ------------------------------------------------------------- arithmetic
\* Rust's % on i32: truncated remainder, the sign follows the dividend.
Rem(a, b) == IF a >= 0 THEN a % b ELSE -((-a) % b)

RECURSIVE Pow2(_)
\* PW[l] = 2^l.
Pow2(l) == IF l = 0 THEN 1 ELSE 2 * Pow2(l - 1)

\* (w & PW[l]) > 0 for the word whose set bits are w.
BitSet(w, l) == l \in w

\* !(w & PW[l]) > 0 : the bitwise complement of the masked word, compared
\* with zero (unary ! binds tighter than >).
NotMaskPositive(w, l) == \E b \in 0..(WordBits - 1) : b \notin (w \cap {l})

\* a ^ b on words.
XorW(a, b) == (a \ b) \cup (b \ a)

\* over32 = (n >> 5) + 1
Over32(nn) == (nn \div PWLen) + 1

Rows(nn) == 0..(2 * nn)

\* New with the stabilizer branch taken for every row from n on (a plain
\* else in place of else if i < 2 * n): the scratch row gets a Z too.
New_ElseBranch(nn) ==
    [n |-> nn,
     x |-> [i \in Rows(nn) |-> IF i < nn THEN {i} ELSE {}],
     z |-> [i \in Rows(nn) |-> IF i >= nn THEN {i - nn} ELSE {}],
     r |-> [i \in Rows(nn) |-> 0]]

\* ------------------------------------------------------------ State::new
New(nn) ==
    [n |-> nn,
     x |-> [i \in Rows(nn) |-> IF i < nn THEN {i} ELSE {}],
     z |-> [i \in Rows(nn) |-> IF i >= nn /\ i < 2 * nn THEN {i - nn} ELSE {}],
     r |-> [i \in Rows(nn) |-> 0]]

\* ------------------------------------------------------------ row algebra
rowcopy(s, i, k) ==
    [s EXCEPT !.x[i] = s.x[k], !.z[i] = s.z[k], !.r[i] = s.r[k]]

rowset(s, i, b) ==
    IF b < s.n
    THEN [s EXCEPT !.x[i] = {b}, !.z[i] = {}, !.r[i] = 0]
    ELSE [s EXCEPT !.x[i] = {}, !.z[i] = {b - s.n}, !.r[i] = 0]

rowswap(s, i, k) ==
    rowcopy(rowcopy(rowcopy(s, 2 * s.n, k), k, i), i, 2 * s.n)

B2I(b) == IF b THEN 1 ELSE 0

\* The contribution of one bit position to e in clifford, with xk, zk, xi, zi
\* the words of rows k and i and l the position.  The tests for Y and Z of
\* row k sit inside the block guarded by the test for X.
CliffordTerm(xk, zk, xi, zi, l) ==
    IF BitSet(xk, l) /\ NotMaskPositive(zk, l)
    THEN   B2I(BitSet(xi, l) /\ BitSet(zi, l))
         - B2I(NotMaskPositive(xi, l) /\ BitSet(zi, l))
         + (IF BitSet(xk, l) /\ BitSet(zk, l)
            THEN   B2I(NotMaskPositive(xi, l) /\ BitSet(zi, l))
                 - B2I(BitSet(xi, l) /\ NotMaskPositive(zi, l))
            ELSE 0)
         + (IF NotMaskPositive(xk, l) /\ BitSet(zk, l)
            THEN   B2I(BitSet(xi, l) /\ NotMaskPositive(zi, l))
                 - B2I(BitSet(xi, l) /\ BitSet(zi, l))
            ELSE 0)
    ELSE 0

RECURSIVE CliffordSum(_, _, _, _, _)
\* Sum of the contributions of positions 0..l-1.
CliffordSum(xk, zk, xi, zi, l) ==
    IF l = 0 THEN 0
    ELSE CliffordSum(xk, zk, xi, zi, l - 1) + CliffordTerm(xk, zk, xi, zi, l - 1)

clifford(s, i, k) ==
    LET e0 == CliffordSum(s.x[k], s.z[k], s.x[i], s.z[i], PWLen * Over32(s.n))
        e  == Rem(e0 + s.r[i] + s.r[k], 4)
    IN IF e >= 0 THEN e ELSE e + 4

rowmult(s, i, k) ==
    [s EXCEPT !.r[i] = clifford(s, i, k),
              !.x[i] = XorW(s.x[i], s.x[k]),
              !.z[i] = XorW(s.z[i], s.z[k])]

\* ------------------------------------------------------------------ gates
\* One row of HadamardGate::apply.
HadamardRow(s, i, t) ==
    LET nx == (s.x[i] \ {t}) \cup (s.z[i] \cap {t})
        nz == (s.z[i] \ {t}) \cup (s.x[i] \cap {t})
    IN [s EXCEPT !.x[i] = nx, !.z[i] = nz,
                 !.r[i] = IF BitSet(nx, t) /\ BitSet(nz, t)
                          THEN Rem(s.r[i] + 2, 4) ELSE s.r[i]]

\* One row of PhaseGate::apply.
PhaseRow(s, i, t) ==
    [s EXCEPT !.r[i] = IF BitSet(s.x[i], t) /\ BitSet(s.z[i], t)
                       THEN Rem(s.r[i] + 2, 4) ELSE s.r[i],
              !.z[i] = XorW(s.z[i], s.x[i] \cap {t})]

\* CNotRow without the update of the Z bit at b.
CNotRow_NoZUpdate(s, i, b, c) ==
    LET nx == IF BitSet(s.x[i], b) THEN XorW(s.x[i], {c}) ELSE s.x[i]
        nz == s.z[i]
        r1 == IF BitSet(nx, b) /\ BitSet(nz, c) /\ BitSet(nx, c) /\ BitSet(nz, b)
              THEN Rem(s.r[i] + 2, 4) ELSE s.r[i]
        r2 == IF BitSet(nx, b) /\ BitSet(nz, c) /\ ~BitSet(nx, c) /\ ~BitSet(nz, b)
              THEN Rem(r1 + 2, 4) ELSE r1
    IN [s EXCEPT !.x[i] = nx, !.z[i] = nz, !.r[i] = r2]

\* CNotRow without the second test of the phase (the one for both
\* updated bits clear).
CNotRow_FirstTestOnly(s, i, b, c) ==
    LET nx == IF BitSet(s.x[i], b) THEN XorW(s.x[i], {c}) ELSE s.x[i]
        nz == IF BitSet(s.z[i], c) THEN XorW(s.z[i], {b}) ELSE s.z[i]
        r1 == IF BitSet(nx, b) /\ BitSet(nz, c) /\ BitSet(nx, c) /\ BitSet(nz, b)
              THEN Rem(s.r[i] + 2, 4) ELSE s.r[i]
    IN [s EXCEPT !.x[i] = nx, !.z[i] = nz, !.r[i] = r1]

\* One row of CNotGate::apply, b = self.target, c = self.control.
CNotRow(s, i, b, c) ==
    LET nx == IF BitSet(s.x[i], b) THEN XorW(s.x[i], {c}) ELSE s.x[i]
        nz == IF BitSet(s.z[i], c) THEN XorW(s.z[i], {b}) ELSE s.z[i]
        r1 == IF BitSet(nx, b) /\ BitSet(nz, c) /\ BitSet(nx, c) /\ BitSet(nz, b)
              THEN Rem(s.r[i] + 2, 4) ELSE s.r[i]
        r2 == IF BitSet(nx, b) /\ BitSet(nz, c) /\ ~BitSet(nx, c) /\ ~BitSet(nz, b)
              THEN Rem(r1 + 2, 4) ELSE r1
    IN [s EXCEPT !.x[i] = nx, !.z[i] = nz, !.r[i] = r2]

RECURSIVE HadamardLoop(_, _, _)
\* Rows 0..i-1 transformed.
HadamardLoop(s, i, t) ==
    IF i = 0 THEN s ELSE HadamardRow(HadamardLoop(s, i - 1, t), i - 1, t)

RECURSIVE PhaseLoop(_, _, _)
PhaseLoop(s, i, t) ==
    IF i = 0 THEN s ELSE PhaseRow(PhaseLoop(s, i - 1, t), i - 1, t)

RECURSIVE CNotLoop(_, _, _, _)
CNotLoop(s, i, b, c) ==
    IF i = 0 THEN s ELSE CNotRow(CNotLoop(s, i - 1, b, c), i - 1, b, c)

HadamardApply(s, t) == HadamardLoop(s, 2 * s.n, t)
PhaseApply(s, t) == PhaseLoop(s, 2 * s.n, t)
CNotApply(s, b, c) == CNotLoop(s, 2 * s.n, b, c)

\* ---------------------------------------------------------------- measure
\* Measurement::fixed(bit), Measurement::random(bit): the byte.
MeasurementFixed(bit) == B2I(bit)
MeasurementRandom(bit) == B2I(bit) + 2
is_random(byte) == byte >= 2
is_one(byte) == byte = 1 \/ byte = 3
is_zero(byte) == byte = 0 \/ byte = 2

\* ScanStab reading row a where the code reads row a + n.
ScanStab_DestabRows(s, target) ==
    IF \E a \in 0..(s.n - 1) : BitSet(s.x[a], target)
    THEN CHOOSE a \in 0..(s.n - 1) :
            /\ BitSet(s.x[a], target)
            /\ \A a2 \in 0..(a - 1) : ~BitSet(s.x[a2], target)
    ELSE s.n

\* The scan of measure over the stabilizer rows: p counts the rows passed
\* before the first one whose X bit at target is set (n when there is none).
ScanStab(s, target) ==
    IF \E a \in 0..(s.n - 1) : BitSet(s.x[a + s.n], target)
    THEN CHOOSE a \in 0..(s.n - 1) :
            /\ BitSet(s.x[a + s.n], target)
            /\ \A a2 \in 0..(a - 1) : ~BitSet(s.x[a2 + s.n], target)
    ELSE s.n

\* The scan of measure over the destabilizer rows (m).
ScanDestab(s, target) ==
    IF \E a \in 0..(s.n - 1) : BitSet(s.x[a], target)
    THEN CHOOSE a \in 0..(s.n - 1) :
            /\ BitSet(s.x[a], target)
            /\ \A a2 \in 0..(a - 1) : ~BitSet(s.x[a2], target)
    ELSE s.n

RECURSIVE MeasureRandomLoop_HalfRows(_, _, _, _)
\* MeasureRandomLoop updating only the rows below n (for i in 0..n).
MeasureRandomLoop_HalfRows(s, i, p, target) ==
    IF i = 0 THEN s
    ELSE LET s1 == MeasureRandomLoop_HalfRows(s, i - 1, p, target)
         IN IF (i - 1 # p) /\ (i - 1 < s.n) /\ BitSet(s1.x[i - 1], target)
            THEN rowmult(s1, i - 1, p) ELSE s1

RECURSIVE MeasureRandomLoop(_, _, _, _)
\* for i in 0..2n of the indeterminate branch, rows 0..i-1 done.
MeasureRandomLoop(s, i, p, target) ==
    IF i = 0 THEN s
    ELSE LET s1 == MeasureRandomLoop(s, i - 1, p, target)
         IN IF (i - 1 # p) /\ BitSet(s1.x[i - 1], target)
            THEN rowmult(s1, i - 1, p) ELSE s1

RECURSIVE MeasureFixedLoop(_, _, _, _)
\* for i in (m+1)..n of the determinate branch, rows m+1..i-1 done.
MeasureFixedLoop(s, i, m, target) ==
    IF i <= m + 1 THEN s
    ELSE LET s1 == MeasureFixedLoop(s, i - 1, m, target)
         IN IF BitSet(s1.x[i - 1], target)
            THEN rowmult(s1, 2 * s.n, (i - 1) + s.n) ELSE s1

\* The values rand::random::<i32>() is sampled from.
RandomI32 == {-2147483647, -2, -1, 0, 1, 2, 2147483647}

\* The phase written by the moment of quantum randomness.
RandomPhase(rnd) == 2 * Rem(rnd, 2)

\* measure whose determinate branch accumulates in destabilizer row m
\* instead of the scratch row 2n.
measure_FixedIntoRowM(s, target, rnd) ==
    LET p == ScanStab(s, target)
        is_indeterminate == p < s.n
    IN IF is_indeterminate
       THEN LET s1 == rowcopy(s, p, p + s.n)
                s2 == rowset(s1, p + s.n, target + s.n)
                s3 == [s2 EXCEPT !.r[p + s.n] = RandomPhase(rnd)]
                s4 == MeasureRandomLoop(s3, 2 * s.n, p, target)
            IN [s |-> s4, byte |-> MeasurementRandom(s4.r[p + s.n] > 0), draws |-> 1]
       ELSE LET m  == ScanDestab(s, target)
                s1 == rowcopy(s, m, m + s.n)
            IN [s |-> s1, byte |-> MeasurementFixed(s1.r[m] > 0), draws |-> 0]

\* State::measure with rnd the value of rand::random::<i32>() (used only on
\* the indeterminate branch).  draws counts the calls of rand::random.
measure(s, target, rnd) ==
    LET p == ScanStab(s, target)
        is_indeterminate == p < s.n
    IN IF is_indeterminate
       THEN LET s1 == rowcopy(s, p, p + s.n)
                s2 == rowset(s1, p + s.n, target + s.n)
                s3 == [s2 EXCEPT !.r[p + s.n] = RandomPhase(rnd)]
                s4 == MeasureRandomLoop(s3, 2 * s.n, p, target)
            IN [s |-> s4, byte |-> MeasurementRandom(s4.r[p + s.n] > 0), draws |-> 1]
       ELSE LET m  == ScanDestab(s, target)
                s1 == rowcopy(s, 2 * s.n, m + s.n)
                s2 == MeasureFixedLoop(s1, s.n, m, target)
            IN [s |-> s2, byte |-> MeasurementFixed(s2.r[2 * s.n] > 0), draws |-> 0]

\* ---------------------------------------------------------------- nonzero
\* Number of rows a in from..2n-1 passed before the first one whose bit j
\* of matrix mat is set.
ScanDown(mat, nn, from, j) ==
    IF \E a \in from..(2 * nn - 1) : BitSet(mat[a], j)
    THEN (CHOOSE a \in from..(2 * nn - 1) :
            /\ BitSet(mat[a], j)
            /\ \A a2 \in from..(a - 1) : ~BitSet(mat[a2], j)) - from
    ELSE IF from < 2 * nn THEN 2 * nn - from ELSE 0

RECURSIVE EliminateX(_, _, _, _)
\* for k2 in (i+1)..2n of the X pass, rows i+1..k2-1 done.
EliminateX(s, k2, i, j) ==
    IF k2 <= i + 1 THEN s
    ELSE LET s1 == EliminateX(s, k2 - 1, i, j)
         IN IF BitSet(s1.x[k2 - 1], j)
            THEN rowmult(rowmult(s1, k2 - 1, i), i - s.n, (k2 - 1) - s.n)
            ELSE s1

RECURSIVE EliminateZ(_, _, _, _)
EliminateZ(s, k2, i, j) ==
    IF k2 <= i + 1 THEN s
    ELSE LET s1 == EliminateZ(s, k2 - 1, i, j)
         IN IF BitSet(s1.z[k2 - 1], j)
            THEN rowmult(rowmult(s1, k2 - 1, i), i - s.n, (k2 - 1) - s.n)
            ELSE s1

RECURSIVE PassX(_, _)
\* The X pass after columns 0..j-1: the tableau, i and k.  k is declared
\* once before the loop and keeps its value from one column to the next.
PassX(s, j) ==
    IF j = 0 THEN [s |-> s, i |-> s.n, k |-> s.n]
    ELSE LET q  == PassX(s, j - 1)
             k1 == q.k + ScanDown(q.s.x, s.n, q.i, j - 1)
         IN IF k1 < 2 * s.n
            THEN LET s1 == rowswap(q.s, q.i, k1)
                     s2 == rowswap(s1, q.i - s.n, k1 - s.n)
                     s3 == EliminateX(s2, 2 * s.n, q.i, j - 1)
                 IN [s |-> s3, i |-> q.i + 1, k |-> k1]
            ELSE [s |-> q.s, i |-> q.i, k |-> k1]

RECURSIVE PassZ(_, _, _)
\* The Z pass after columns 0..j-1, started with i = i0; k restarts at i
\* for every column.
PassZ(s, i0, j) ==
    IF j = 0 THEN [s |-> s, i |-> i0]
    ELSE LET q  == PassZ(s, i0, j - 1)
             k1 == q.i + ScanDown(q.s.z, s.n, q.i, j - 1)
         IN IF k1 < 2 * s.n
            THEN LET s1 == rowswap(q.s, q.i, k1)
                     s2 == rowswap(s1, q.i - s.n, k1 - s.n)
                     s3 == EliminateZ(s2, 2 * s.n, q.i, j - 1)
                 IN [s |-> s3, i |-> q.i + 1]
            ELSE q

\* nonzero with g taken after the Z pass instead of after the X pass.
nonzero_GAfterZPass(s) ==
    LET px == PassX(s, s.n)
        pz == PassZ(px.s, px.i, s.n)
    IN [s |-> pz.s, g |-> pz.i - s.n]

\* State::nonzero: the tableau it leaves and the g it returns.
nonzero(s) ==
    LET px == PassX(s, s.n)
        pz == PassZ(px.s, px.i, s.n)
    IN [s |-> pz.s, g |-> px.i - s.n]

\* -------------------------------------------------------------------- ket
RECURSIVE KetPhase(_, _, _)
\* e of ket_basis_state after qubits 0..j-1.
KetPhase(s, j, e0) ==
    IF j = 0 THEN e0
    ELSE LET e == KetPhase(s, j - 1, e0)
         IN IF BitSet(s.x[2 * s.n], j - 1) /\ BitSet(s.z[2 * s.n], j - 1)
            THEN Rem(e + 1, 4) ELSE e

\* KetPrefix with the arms for 0 and 2 exchanged.
KetPrefix_SignsSwapped(e) ==
    CASE e = 0 -> " -|"
      [] e = 1 -> "+i|"
      [] e = 2 -> " +|"
      [] e = 3 -> "-i|"
      [] OTHER -> ""

\* match e { 0 => " +|", 1 => "+i|", 2 => " -|", 3 => "-i|", _ => {} }
KetPrefix(e) ==
    CASE e = 0 -> " +|"
      [] e = 1 -> "+i|"
      [] e = 2 -> " -|"
      [] e = 3 -> "-i|"
      [] OTHER -> ""

\* One line of ket: the prefix pushed for e and the n characters "0"/"1"
\* (the closing ">\n" is the same on every line).
ket_basis_state(s) ==
    [sign |-> KetPrefix(KetPhase(s, s.n, s.r[2 * s.n])),
     bits |-> [j \in 1..s.n |-> IF BitSet(s.x[2 * s.n], j - 1) THEN "1" ELSE "0"]]

\* Bit i of the integer t.
IntBit(t, i) == (t \div Pow2(i)) % 2 = 1

RECURSIVE KetInner(_, _, _, _)
\* for i in 0..g of ket for counter t, generators 0..i-1 done.
KetInner(s, i, t, g) ==
    IF i = 0 THEN s
    ELSE LET s1 == KetInner(s, i - 1, t, g)
         IN IF IntBit(t, i - 1) # IntBit(t + 1, i - 1)
            THEN rowmult(s1, 2 * s.n, s.n + (i - 1)) ELSE s1

RECURSIVE KetOuter(_, _, _)
\* for t in 0..PW[g]-1 of ket, counters 0..t-1 done: tableau and lines.
KetOuter(q, t, g) ==
    IF t = 0 THEN q
    ELSE LET q1 == KetOuter(q, t - 1, g)
             s1 == KetInner(q1.s, g, t - 1, g)
         IN [s |-> s1, lines |-> Append(q1.lines, ket_basis_state(s1))]

\* State::ket: the tableau it leaves and the lines of the returned string.
ket(s) ==
    LET nz == nonzero(s)
        q0 == [s |-> nz.s, lines |-> <<ket_basis_state(nz.s)>>]
        q  == KetOuter(q0, Pow2(nz.g) - 1, nz.g)
    IN [s |-> q.s, g |-> nz.g, lines |-> q.lines]

\* ------------------------------------------------------------------ state
\* n, x, z, r: the fields of State.  last: the operation completed last and
\* what it returned; prev: the one before it; pre: the tableau the last
\* operation started from; steps: the number of operations completed.
VARIABLES n, x, z, r, last, prev, pre, steps, runner

vars == <<n, x, z, r, last, prev, pre, steps, runner>>

Cur == [n |-> n, x |-> x, z |-> z, r |-> r]

NoOp == [op |-> "new", a |-> 0, b |-> 0, byte |-> 0, draws |-> 0, g |-> 0, lines |-> <<>>]

\* No Measurements value borrows the state.  A live one holds the
\* instructions given to run (prog), the iterator's remaining ones (iter)
\* and, for every call of next so far, the instructions it applied and the
\* item it returned (pulls); runs counts the calls of run so far.
NoRunner == [live |-> FALSE, prog |-> <<>>, iter |-> <<>>, pulls |-> <<>>, runs |-> 0]

\* The tableau becomes s1 and the Measurements value rn, the operation is
\* recorded in last and the tableau it started from in pre.
BecomesWith(s1, rec, rn) ==
    /\ steps < MaxSteps
    /\ n' = s1.n /\ x' = s1.x /\ z' = s1.z /\ r' = s1.r
    /\ last' = rec
    /\ prev' = last
    /\ pre' = Cur
    /\ steps' = steps + 1
    /\ runner' = rn

\* A method called on the state itself.
Becomes(s1, rec) == BecomesWith(s1, rec, runner)

Init ==
    /\ \E nn \in 0..MaxN :
         /\ n = nn /\ x = New(nn).x /\ z = New(nn).z /\ r = New(nn).r
         /\ pre = New(nn)
    /\ last = NoOp
    /\ prev = NoOp
    /\ steps = 0
    /\ runner = NoRunner

\* State::h
H(t) == Becomes(HadamardApply(Cur, t), [NoOp EXCEPT !.op = "h", !.a = t])

\* Gates::Phase
S(t) == Becomes(PhaseApply(Cur, t), [NoOp EXCEPT !.op = "s", !.a = t])

\* State::cx
Cx(t, c) == Becomes(CNotApply(Cur, t, c), [NoOp EXCEPT !.op = "cx", !.a = t, !.b = c])

\* State::measure
Measure(t) ==
    \E rnd \in RandomI32 :
        LET m == measure(Cur, t, rnd)
        IN Becomes(m.s, [NoOp EXCEPT !.op = "measure", !.a = t,
                                     !.byte = m.byte, !.draws = m.draws])

\* State::nonzero
Reduce ==
    LET q == nonzero(Cur)
    IN Becomes(q.s, [NoOp EXCEPT !.op = "nonzero", !.g = q.g])

\* State::ket
Ket ==
    LET q == ket(Cur)
    IN Becomes(q.s, [NoOp EXCEPT !.op = "ket", !.g = q.g, !.lines = q.lines])

Qubits == 0..(n - 1)

Next ==
    \/ \E t \in Qubits : H(t)
    \/ \E t \in Qubits : S(t)
    \/ \E t \in Qubits, c \in Qubits : t # c /\ Cx(t, c)
    \/ \E t \in Qubits : Measure(t)
    \/ Reduce
    \/ Ket

Spec == Init /\ [][Next]_vars

\* ----------------------------------------------------------------- claims
\* The Pauli letter of row i at qubit q: (0,0)=I, (1,0)=X, (1,1)=Y, (0,1)=Z.
Pauli(s, i, q) ==
    IF BitSet(s.x[i], q)
    THEN (IF BitSet(s.z[i], q) THEN "Y" ELSE "X")
    ELSE (IF BitSet(s.z[i], q) THEN "Z" ELSE "I")

\* Two rows anticommute when the number of qubit positions where they hold
\* different non-identity Paulis is odd.
Anticommute(s, i, j) ==
    Cardinality({q \in 0..(s.n - 1) :
                    /\ Pauli(s, i, q) # "I"
                    /\ Pauli(s, j, q) # "I"
                    /\ Pauli(s, i, q) # Pauli(s, j, q)}) % 2 = 1

\* C1: in every reachable tableau the generator rows keep the symplectic
\* pairing: destabilizer i anticommutes with stabilizer n+j exactly when
\* i = j, stabilizers commute pairwise, destabilizers commute pairwise.
C1_SymplecticPairing ==
    \A i \in 0..(n - 1), j \in 0..(n - 1) :
        /\ Anticommute(Cur, i, n + j) <=> (i = j)
        /\ ~Anticommute(Cur, n + i, n + j)
        /\ ~Anticommute(Cur, i, j)

\* A random measure after a cx on two qubits has left the pairing intact.
C1_Witness ==
    /\ n = 2 /\ steps >= 3
    /\ prev.op = "cx" /\ last.op = "measure" /\ is_random(last.byte)
    /\ Cur # pre
    /\ C1_SymplecticPairing

\* C2: after every completed public operation the phase of every generator
\* row is 0 or 2.
C2_PhasesZeroOrTwo ==
    \A i \in 0..(2 * n - 1) : r[i] \in {0, 2}

\* C3: new(n) yields 2n+1 rows, destabilizer i = X at qubit i, stabilizer
\* n+i = Z at qubit i, the scratch row all identity, every phase 0.
C3_NewTableau ==
    last.op = "new" =>
        /\ DOMAIN x = 0..(2 * n) /\ DOMAIN z = 0..(2 * n) /\ DOMAIN r = 0..(2 * n)
        /\ \A i \in 0..(n - 1) :
              /\ x[i] = {i} /\ z[i] = {}
              /\ x[n + i] = {} /\ z[n + i] = {i}
        /\ x[2 * n] = {} /\ z[2 * n] = {}
        /\ \A i \in 0..(2 * n) : r[i] = 0

\* The tableau of new(2), before any operation.
C3_Witness ==
    /\ last.op = "new" /\ n = 2
    /\ x[0] = {0} /\ x[1] = {1} /\ z[2] = {0} /\ z[3] = {1}
    /\ x[4] = {} /\ z[4] = {}

\* The tableau of new(2); h(0); cx(0, 1).
BellTab == CNotApply(HadamardApply(New(2), 0), 0, 1)

\* C4: on the Bell pair the first measure is classified random, and the
\* measure of the other qubit that follows returns the same bit.
C4_BellEqualBits ==
    [][ /\ (last'.op = "measure" /\ pre' = BellTab) => is_random(last'.byte)
        /\ (/\ last.op = "measure" /\ pre = BellTab
            /\ last'.op = "measure" /\ last'.a # last.a)
           => (is_one(last'.byte) <=> is_one(last.byte)) ]_vars

\* C5: a measure(target) that directly follows a measure(target) is
\* classified fixed and returns the same bit.
C5_RepeatMeasureFixed ==
    (prev.op = "measure" /\ last.op = "measure" /\ last.a = prev.a)
        => /\ ~is_random(last.byte)
           /\ is_one(last.byte) <=> is_one(prev.byte)

\* A measure classified random with bit 1, repeated at once: fixed, bit 1.
C5_Witness ==
    /\ prev.op = "measure" /\ last.op = "measure" /\ last.a = prev.a
    /\ is_random(prev.byte) /\ is_one(prev.byte)
    /\ ~is_random(last.byte) /\ is_one(last.byte)

\* C6: measure(target) is classified random exactly when some stabilizer
\* row had its X bit at target set before the call; the random source is
\* called once in that case and not at all otherwise.
C6_RandomIffStabX ==
    last.op = "measure" =>
        /\ is_random(last.byte) <=>
              \E a \in pre.n..(2 * pre.n - 1) : BitSet(pre.x[a], last.a)
        /\ last.draws = IF is_random(last.byte) THEN 1 ELSE 0

\* A measure on two qubits classified random, with its one draw.
C6_Witness ==
    /\ last.op = "measure" /\ pre.n = 2
    /\ \E a \in pre.n..(2 * pre.n - 1) : BitSet(pre.x[a], last.a)
    /\ is_random(last.byte) /\ last.draws = 1

\* C7: applying hadamard(t) twice to a reachable tableau restores every
\* row's X bits, Z bits and phase.
C7_HadamardInvolution ==
    \A t \in Qubits : HadamardApply(HadamardApply(Cur, t), t) = Cur

\* C8: applying phase(t) four times to a reachable tableau restores every
\* row's X bits, Z bits and phase.
C8_PhaseOrderFour ==
    \A t \in Qubits :
        PhaseApply(PhaseApply(PhaseApply(PhaseApply(Cur, t), t), t), t) = Cur

\* C9: applying the same cnot(a, b) twice to a reachable tableau restores
\* every row's X bits, Z bits and phase.
C9_CNotInvolution ==
    \A a \in Qubits, b \in Qubits :
        a # b => CNotApply(CNotApply(Cur, a, b), a, b) = Cur

\* C10: on the Bell pair, before any measurement, reduce reports g = 1 and
\* ket returns exactly the two lines +|00> and +|11>.
C10_BellKet ==
    /\ (last.op = "nonzero" /\ pre = BellTab) => last.g = 1
    /\ (last.op = "ket" /\ pre = BellTab) =>
          /\ last.g = 1
          /\ Len(last.lines) = 2
          /\ {last.lines[k] : k \in 1..Len(last.lines)} =
                {[sign |-> " +|", bits |-> <<"0", "0">>],
                 [sign |-> " +|", bits |-> <<"1", "1">>]}

\* C11: ket on a state with no gates applied returns exactly one line, with
\* sign + and an all-zero bitstring.
C11_FreshKet ==
    (last.op = "ket" /\ pre = New(pre.n)) =>
        /\ Len(last.lines) = 1
        /\ last.lines[1].sign = " +|"
        /\ last.lines[1].bits = [j \in 1..pre.n |-> "0"]

\* C12: a nonzero that directly follows a nonzero returns the same g and
\* leaves every generator row as the first call left it.
C12_ReduceIdempotent ==
    (prev.op = "nonzero" /\ last.op = "nonzero") =>
        /\ last.g = prev.g
        /\ \A i \in 0..(2 * n - 1) :
              x[i] = pre.x[i] /\ z[i] = pre.z[i] /\ r[i] = pre.r[i]

\* C13: a ket that directly follows a ket returns the same lines in the
\* same order.
C13_KetRestartable ==
    (prev.op = "ket" /\ last.op = "ket") => last.lines = prev.lines

\* C14: new(0) is a single scratch row, and ket on it returns exactly one
\* line, with sign + and the empty bitstring.
C14_ZeroQubits ==
    /\ n = 0 => (DOMAIN x = {0} /\ DOMAIN z = {0} /\ DOMAIN r = {0})
    /\ (last.op = "ket" /\ pre.n = 0) =>
          last.lines = <<[sign |-> " +|", bits |-> <<>>]>>

\* ket has run on the zero-qubit tableau.
C14_Witness ==
    /\ n = 0 /\ last.op = "ket" /\ pre = New(0)
    /\ Len(last.lines) = 1 /\ last.lines[1].bits = <<>>

\* ------------------------------------------- calls with unchecked indices
\* No method checks its qubit indices.  An index whose word t >> 5 is not
\* below over32 makes the first row access x[i][t >> 5] panic (index out of
\* bounds) before anything is written; with n = 0 no row is accessed.
WordInRange(s, t) == (t \div PWLen) < Over32(s.n)

\* The indices a caller may pass: the valid ones, the first invalid ones,
\* the last bit of word 0 and the first bit of word 1.
AnyIndex == (0..MaxN) \cup {PWLen - 1, PWLen}

\* The call panicked: the tableau is as it was and no further call is made.
Panics(name, a, b) == Becomes(Cur, [NoOp EXCEPT !.op = "panic", !.a = a, !.b = b])

\* Bound on the number of calls of a behaviour of SpecAny.
MaxAnySteps == 3

\* The process is still running (no call has panicked) and may make
\* another call.
Running == last.op # "panic" /\ steps < MaxAnySteps

\* State::h with any index.
HAny(t) ==
    /\ Running
    /\ IF n > 0 /\ ~WordInRange(Cur, t)
       THEN Panics("h", t, 0)
       ELSE Becomes(HadamardApply(Cur, t), [NoOp EXCEPT !.op = "h", !.a = t])

\* Gates::Phase with any index.
SAny(t) ==
    /\ Running
    /\ IF n > 0 /\ ~WordInRange(Cur, t)
       THEN Panics("s", t, 0)
       ELSE Becomes(PhaseApply(Cur, t), [NoOp EXCEPT !.op = "s", !.a = t])

\* State::cx with any two indices, equal ones included.
CxAny(t, c) ==
    /\ Running
    /\ IF n > 0 /\ (~WordInRange(Cur, t) \/ ~WordInRange(Cur, c))
       THEN Panics("cx", t, c)
       ELSE Becomes(CNotApply(Cur, t, c), [NoOp EXCEPT !.op = "cx", !.a = t, !.b = c])

\* State::measure with any index.
MeasureAny(t) ==
    /\ Running
    /\ IF n > 0 /\ ~WordInRange(Cur, t)
       THEN Panics("measure", t, 0)
       ELSE \E rnd \in RandomI32 :
               LET m == measure(Cur, t, rnd)
               IN Becomes(m.s, [NoOp EXCEPT !.op = "measure", !.a = t,
                                            !.byte = m.byte, !.draws = m.draws])

NextAny ==
    \/ \E t \in AnyIndex : HAny(t)
    \/ \E t \in AnyIndex : SAny(t)
    \/ \E t \in AnyIndex, c \in AnyIndex : CxAny(t, c)
    \/ \E t \in AnyIndex : MeasureAny(t)
    \/ Running /\ Reduce
    \/ Running /\ Ket

SpecAny == Init /\ [][NextAny]_vars

\* The call recorded in rec broke a precondition on the tableau s: an index
\* not below n, or cx with first = second.
PreconditionBroken(rec, s) ==
    \/ rec.op \in {"h", "s", "measure"} /\ rec.a >= s.n
    \/ rec.op = "cx" /\ (rec.a >= s.n \/ rec.b >= s.n \/ rec.a = rec.b)

\* C15: a gate or measure call that breaks a precondition and returns
\* normally leaves the X bits, Z bits and phase of every generator row
\* unchanged.
C15_NoSilentCorruption ==
    PreconditionBroken(last, pre) =>
        \A i \in 0..(2 * n - 1) :
            x[i] = pre.x[i] /\ z[i] = pre.z[i] /\ r[i] = pre.r[i]

\* ------------------------------------------------- State::run, Measurements
\* Bound on the length of the instruction sequence given to run.
MaxProg == 3

\* Bound on the number of calls of run in a behaviour.
MaxRuns == 1

\* Instruction::Gate(Gates::..) and Instruction::Measure { target }.
GateH(t) == [kind |-> "gate", gate |-> "h", target |-> t, control |-> 0]
GateS(t) == [kind |-> "gate", gate |-> "s", target |-> t, control |-> 0]
GateCx(t, c) == [kind |-> "gate", gate |-> "cx", target |-> t, control |-> c]
InstrMeasure(t) == [kind |-> "measure", gate |-> "", target |-> t, control |-> 0]

\* The instructions over the qubits of a tableau of nn qubits.
Instructions(nn) ==
    {GateH(t) : t \in 0..(nn - 1)} \cup {GateS(t) : t \in 0..(nn - 1)}
    \cup {GateCx(tc[1], tc[2]) :
             tc \in {p \in (0..(nn - 1)) \X (0..(nn - 1)) : p[1] # p[2]}}
    \cup {InstrMeasure(t) : t \in 0..(nn - 1)}

Programs(nn) == UNION {[1..len -> Instructions(nn)] : len \in 0..MaxProg}

\* Gates::apply
GatesApply(s, g) ==
    CASE g.gate = "cx" -> CNotApply(s, g.target, g.control)
      [] g.gate = "h" -> HadamardApply(s, g.target)
      [] g.gate = "s" -> PhaseApply(s, g.target)

\* Option<Measurement>
None == [some |-> FALSE, byte |-> 0]
Some(byte) == [some |-> TRUE, byte |-> byte]

RECURSIVE NextLoop_Eager(_, _, _, _)
\* NextLoop that goes on after a Measure: the first call applies every
\* instruction and returns the first outcome.
NextLoop_Eager(s, iter, applied, rnd) ==
    IF iter # <<>>
    THEN LET instruction == Head(iter)
         IN IF instruction.kind = "gate"
            THEN NextLoop_Eager(GatesApply(s, instruction), Tail(iter),
                                Append(applied, instruction), rnd)
            ELSE LET m == measure(s, instruction.target, rnd)
                     rest == NextLoop_Eager(m.s, Tail(iter),
                                            Append(applied, instruction), rnd)
                 IN [rest EXCEPT !.item = Some(m.byte)]
    ELSE [s |-> s, iter |-> iter, applied |-> applied, item |-> None]

\* The loop of Measurements::next with the gates applied so far in applied:
\* a gate is applied and the loop goes on, a Measure is performed and ends
\* the loop with its outcome, an exhausted iterator ends it with None.
RECURSIVE NextLoop(_, _, _, _)
NextLoop(s, iter, applied, rnd) ==
    IF iter # <<>>
    THEN LET instruction == Head(iter)
         IN IF instruction.kind = "gate"
            THEN NextLoop(GatesApply(s, instruction), Tail(iter),
                          Append(applied, instruction), rnd)
            ELSE LET m == measure(s, instruction.target, rnd)
                 IN [s |-> m.s, iter |-> Tail(iter),
                     applied |-> Append(applied, instruction), item |-> Some(m.byte)]
    ELSE [s |-> s, iter |-> iter, applied |-> applied, item |-> None]

\* State::run: the state is borrowed by a new Measurements value.
Run(prog) ==
    /\ ~runner.live
    /\ runner.runs < MaxRuns
    /\ BecomesWith(Cur, [NoOp EXCEPT !.op = "run"],
                   [live |-> TRUE, prog |-> prog, iter |-> prog, pulls |-> <<>>,
                    runs |-> runner.runs + 1])

\* Measurements::next
Pull ==
    /\ runner.live
    /\ \E rnd \in RandomI32 :
          LET q == NextLoop(Cur, runner.iter, <<>>, rnd)
          IN BecomesWith(q.s, [NoOp EXCEPT !.op = "next", !.byte = q.item.byte],
                         [runner EXCEPT !.iter = q.iter,
                                        !.pulls = Append(@, [applied |-> q.applied,
                                                             item |-> q.item])])

\* The Measurements value is dropped and the borrow of the state ends.
DropRunner ==
    /\ runner.live
    /\ BecomesWith(Cur, [NoOp EXCEPT !.op = "drop"],
                   [NoRunner EXCEPT !.runs = runner.runs])

NextRun ==
    \/ \E prog \in Programs(n) : Run(prog)
    \/ Pull
    \/ DropRunner

SpecRun == Init /\ [][NextRun]_vars

\* The positions of the Measure instructions of prog.
MeasureIdx(prog) == {i \in 1..Len(prog) : prog[i].kind = "measure"}

\* The position of the k-th Measure of prog, 0 for k = 0 and the length of
\* prog when it has fewer than k Measures.
SegmentEnd(prog, k) ==
    IF k = 0 THEN 0
    ELSE IF Cardinality(MeasureIdx(prog)) >= k
         THEN CHOOSE i \in MeasureIdx(prog) :
                  Cardinality({j \in MeasureIdx(prog) : j <= i}) = k
         ELSE Len(prog)

\* The gates of seq applied to s from left to right.
RECURSIVE ApplyGates(_, _)
ApplyGates(s, seq) ==
    IF seq = <<>> THEN s
    ELSE GatesApply(ApplyGates(s, SubSeq(seq, 1, Len(seq) - 1)), seq[Len(seq)])

\* The instructions applied by all calls of next so far, in order.
RECURSIVE AppliedSoFar(_)
AppliedSoFar(pulls) ==
    IF pulls = <<>> THEN <<>>
    ELSE AppliedSoFar(SubSeq(pulls, 1, Len(pulls) - 1)) \o pulls[Len(pulls)].applied

\* C16: run is pull-driven.  Creating the runner changes nothing; the k-th
\* call of next applies exactly the instructions after the (k-1)-th Measure
\* up to and including the k-th Measure and yields that measurement's
\* outcome, or, when no k-th Measure exists, the remaining gates and None;
\* the instructions applied so far are a prefix of the sequence, each
\* applied once.
C16_PullDriven ==
    /\ last.op = "run" =>
          /\ Cur = pre
          /\ runner.pulls = <<>>
          /\ runner.iter = runner.prog
    /\ runner.live =>
          /\ \A k \in 1..Len(runner.pulls) :
                /\ runner.pulls[k].applied =
                       SubSeq(runner.prog, SegmentEnd(runner.prog, k - 1) + 1,
                              SegmentEnd(runner.prog, k))
                /\ runner.pulls[k].item.some =
                       (Cardinality(MeasureIdx(runner.prog)) >= k)
          /\ AppliedSoFar(runner.pulls) =
                 SubSeq(runner.prog, 1, Len(runner.prog) - Len(runner.iter))
          /\ runner.iter = SubSeq(runner.prog, Len(AppliedSoFar(runner.pulls)) + 1,
                                  Len(runner.prog))
    /\ last.op = "next" =>
          LET this == runner.pulls[Len(runner.pulls)]
              seg == this.applied
          IN IF this.item.some
             THEN \E rnd \in RandomI32 :
                     LET m == measure(ApplyGates(pre, SubSeq(seg, 1, Len(seg) - 1)),
                                      seg[Len(seg)].target, rnd)
                     IN Cur = m.s /\ this.item.byte = m.byte
             ELSE Cur = ApplyGates(pre, seg)

\* A gate, a Measure and a trailing gate: the first call of next applied
\* the first two and yielded an outcome, the second applied the trailing
\* gate, changed the tableau and returned None.
C16_Witness ==
    /\ runner.live
    /\ Len(runner.prog) = 3
    /\ Len(runner.pulls) = 2
    /\ runner.pulls[1].item.some
    /\ Len(runner.pulls[1].applied) = 2
    /\ ~runner.pulls[2].item.some
    /\ runner.pulls[2].applied = <<runner.prog[3]>>
    /\ last.op = "next"
    /\ Cur # pre

\* C17: cx(target, control) performs a NOT on target exactly when control
\* is |1>.  On the fresh 2-qubit state, with control prepared in |1> by
\* h, s, s, h and target in |0>, after cx(target, control) measure(target)
\* is fixed 1 and measure(control) is fixed 1; with control left in |0>,
\* measure(target) is fixed 0.
C17_CxNotOnTarget ==
    (last.op = "new" /\ n = 2) =>
        \A target \in Qubits, control \in Qubits :
            target # control =>
                LET prepared == HadamardApply(PhaseApply(PhaseApply(
                                    HadamardApply(Cur, control), control), control), control)
                    flipped == CNotApply(prepared, target, control)
                    idle == CNotApply(Cur, target, control)
                IN \A rnd \in RandomI32 :
                      LET mt == measure(flipped, target, rnd)
                          mc == measure(mt.s, control, rnd)
                      IN /\ mt.byte = MeasurementFixed(TRUE)
                         /\ mc.byte = MeasurementFixed(TRUE)
                         /\ measure(idle, target, rnd).byte = MeasurementFixed(FALSE)

\* The number of columns in which the X pass of nonzero on s found a pivot
\* (took the branch k < 2n), and the same for the Z pass that follows it.
XPassPivots(s) ==
    Cardinality({j \in 0..(s.n - 1) : PassX(s, j + 1).i # PassX(s, j).i})
ZPassPivots(s) ==
    LET px == PassX(s, s.n)
    IN Cardinality({j \in 0..(s.n - 1) :
                       PassZ(px.s, px.i, j + 1).i # PassZ(px.s, px.i, j).i})

\* C18 as stated: nonzero returns g equal to the number of pivots found
\* across both the X-column pass and the Z-column pass.
C18_GCountsBothPasses ==
    last.op = "nonzero" => last.g = XPassPivots(pre) + ZPassPivots(pre)

\* C18 amended: nonzero returns g equal to the number of pivots found in
\* the X-column pass alone; pivots of the Z-column pass are not counted.
C18_GCountsXPass ==
    last.op = "nonzero" => last.g = XPassPivots(pre)

\* nonzero ran on a tableau where both passes found a pivot.
C18_Witness ==
    /\ last.op = "nonzero"
    /\ XPassPivots(pre) > 0
    /\ ZPassPivots(pre) > 0
    /\ last.g = XPassPivots(pre)

\* The single-qubit contribution for the Pauli pair (row k, row i).
PairContribution(pk, pi) ==
    IF <<pk, pi>> \in {<<"X", "Y">>, <<"Y", "Z">>, <<"Z", "X">>} THEN 1
    ELSE IF <<pk, pi>> \in {<<"X", "Z">>, <<"Y", "X">>, <<"Z", "Y">>} THEN -1
    ELSE 0

\* The sum of the contributions of qubit positions 0..q-1.
RECURSIVE ContributionSum(_, _, _, _)
ContributionSum(s, i, k, q) ==
    IF q = 0 THEN 0
    ELSE ContributionSum(s, i, k, q - 1)
         + PairContribution(Pauli(s, k, q - 1), Pauli(s, i, q - 1))

\* C19: for two rows i and k with phases in 0..3, clifford(i, k) is
\* (r[i] + r[k] + the sum over the qubit positions of the contribution of
\* the Pauli pair (row k, row i)) mod 4 in 0..3, and rowmult(i, k) stores it
\* as the phase of row i, XORs the bits of row k into row i and leaves
\* row k unchanged.
C19_CliffordTable ==
    \A i \in 0..(2 * n), k \in 0..(2 * n) :
        (i # k /\ r[i] \in 0..3 /\ r[k] \in 0..3) =>
            LET e == (r[i] + r[k] + ContributionSum(Cur, i, k, n)) % 4
                m == rowmult(Cur, i, k)
            IN /\ clifford(Cur, i, k) = e
               /\ m.r[i] = e
               /\ m.x[i] = XorW(x[i], x[k])
               /\ m.z[i] = XorW(z[i], z[k])
               /\ m.x[k] = x[k] /\ m.z[k] = z[k] /\ m.r[k] = r[k]

\* m is s with row i replaced by what the rule of cnot(first, second) gives
\* when evaluated on the bits of row i before the update.
CNotRule(s, i, first, second, m) ==
    LET xf == BitSet(s.x[i], first)
        xs == BitSet(s.x[i], second)
        zf == BitSet(s.z[i], first)
        zs == BitSet(s.z[i], second)
    IN /\ BitSet(m.x[i], second) = (xs # xf)
       /\ BitSet(m.z[i], first) = (zf # zs)
       /\ m.x[i] \ {second} = s.x[i] \ {second}
       /\ m.z[i] \ {first} = s.z[i] \ {first}
       /\ IF xf /\ zs /\ (xs = zf)
          THEN m.r[i] # s.r[i] /\ (m.r[i] - s.r[i] - 2) % 4 = 0
          ELSE m.r[i] = s.r[i]
       /\ \A j \in (DOMAIN s.r) \ {i} :
             m.x[j] = s.x[j] /\ m.z[j] = s.z[j] /\ m.r[j] = s.r[j]

\* The tableau s with row i set to the given bits at qubits 0 and 1 and
\* the given phase.
WithRow(s, i, xbits, zbits, phase) ==
    [s EXCEPT !.x[i] = xbits, !.z[i] = zbits, !.r[i] = phase]

\* C20: for every generator row of a reachable tableau, and for every bit
\* pattern at two distinct qubits with every phase in 0..3, the row that
\* CNotGate::apply produces (bits updated first, the two phase tests on the
\* updated bits) is the row given by the rule on the pre-update bits.
C20_CNotPreUpdateRule ==
    \A first \in Qubits, second \in Qubits :
        first # second =>
            /\ \A i \in 0..(2 * n - 1) :
                  CNotRule(Cur, i, first, second, CNotRow(Cur, i, first, second))
            /\ \A xbits \in SUBSET {first, second}, zbits \in SUBSET {first, second},
                  phase \in 0..3 :
                  LET s == WithRow(Cur, 0, xbits, zbits, phase)
                  IN CNotRule(s, 0, first, second, CNotRow(s, 0, first, second))

\* cx ran and flipped the phase of one generator row while changing only
\* the bits of another.
C20_Witness ==
    /\ last.op = "cx"
    /\ \E i \in 0..(2 * n - 1) : r[i] # pre.r[i]
    /\ \E i \in 0..(2 * n - 1) : r[i] = pre.r[i] /\ (x[i] # pre.x[i] \/ z[i] # pre.z[i])
    /\ Cur = CNotApply(pre, last.a, last.b)

\* C21: after a measure(target) classified random that selected stabilizer
\* index p, destabilizer row p equals the stabilizer row n+p of before the
\* call in bits and phase, stabilizer row n+p is exactly Z at target with
\* phase 0 or 2, the returned bit is 1 exactly when that phase is 2, and no
\* generator row other than destabilizer row p has its X bit at target set.
C21_RandomMeasureRows ==
    (last.op = "measure" /\ is_random(last.byte)) =>
        LET target == last.a
            p == ScanStab(pre, target)
        IN /\ p < n
           /\ x[p] = pre.x[n + p] /\ z[p] = pre.z[n + p] /\ r[p] = pre.r[n + p]
           /\ x[n + p] = {} /\ z[n + p] = {target}
           /\ r[n + p] \in {0, 2}
           /\ is_one(last.byte) <=> (r[n + p] = 2)
           /\ \A i \in (0..(2 * n - 1)) \ {p} : ~BitSet(x[i], target)

\* C22: a measure(target) classified fixed leaves the X bits, Z bits and
\* phase of all 2n generator rows unchanged, and in every reachable tableau
\* where no stabilizer row has its X bit at target set some destabilizer
\* row has it set, so the scan for m ends with m < n.
C22_FixedMeasureFrame ==
    /\ (last.op = "measure" /\ ~is_random(last.byte)) =>
          \A i \in 0..(2 * n - 1) :
              x[i] = pre.x[i] /\ z[i] = pre.z[i] /\ r[i] = pre.r[i]
    /\ \A target \in Qubits :
          ScanStab(Cur, target) = n => ScanDestab(Cur, target) < n

\* A fixed measure on two qubits whose scan found m = 0, multiplied a
\* second stabilizer into the scratch row and changed it.
C22_Witness ==
    /\ last.op = "measure" /\ ~is_random(last.byte)
    /\ n = 2
    /\ ScanDestab(pre, last.a) = 0
    /\ BitSet(pre.x[1], last.a)
    /\ <<x[2 * n], z[2 * n], r[2 * n]>> # <<pre.x[2 * n], pre.z[2 * n], pre.r[2 * n]>>
    /\ \A i \in 0..(2 * n - 1) : x[i] = pre.x[i] /\ z[i] = pre.z[i] /\ r[i] = pre.r[i]

\* The XOR of the X words of the rows in the set rws.
RECURSIVE XorRows(_, _)
XorRows(s, rws) ==
    IF rws = {} THEN {}
    ELSE LET i == CHOOSE i \in rws : TRUE
         IN XorW(s.x[i], XorRows(s, rws \ {i}))

\* The GF(2) rank of the X parts of the n stabilizer rows of s.
XRank(s) ==
    CHOOSE k \in 0..s.n :
        Pow2(k) = Cardinality({XorRows(s, rws) : rws \in SUBSET (s.n..(2 * s.n - 1))})

\* C23: after nonzero returns g, g is the GF(2) rank of the X parts of the
\* stabilizer rows; every pivot swap of the X pass brought into the pivot
\* position a row whose bit in the pivot column is set; stabilizer rows
\* n..n+g-1 have pivot X bits in strictly increasing columns that are clear
\* in all later stabilizer rows; stabilizer rows n+g..2n-1 have no X bit.
C23_EchelonRank ==
    last.op = "nonzero" =>
        /\ last.g = XRank(pre)
        /\ \A j \in 0..(n - 1) :
              LET q == PassX(pre, j)
                  q1 == PassX(pre, j + 1)
              IN q1.i # q.i => BitSet(q.s.x[q1.k], j)
        /\ \E col \in [0..(last.g - 1) -> Qubits] :
              /\ \A a \in 0..(last.g - 1), b \in 0..(last.g - 1) :
                    a < b => col[a] < col[b]
              /\ \A a \in 0..(last.g - 1) :
                    /\ BitSet(x[n + a], col[a])
                    /\ \A i \in (n + a + 1)..(2 * n - 1) : ~BitSet(x[i], col[a])
        /\ \A i \in (n + last.g)..(2 * n - 1) : x[i] = {}

\* C24: ket emits exactly 2^g lines, g being what nonzero returns for the
\* tableau; the bitstrings of the lines are pairwise distinct and every
\* line carries one of the four sign prefixes.
C24_KetLines ==
    last.op = "ket" =>
        /\ last.g = nonzero(pre).g
        /\ Len(last.lines) = Pow2(last.g)
        /\ \A a \in 1..Len(last.lines), b \in 1..Len(last.lines) :
              a # b => last.lines[a].bits # last.lines[b].bits
        /\ \A a \in 1..Len(last.lines) :
              last.lines[a].sign \in {" +|", "+i|", " -|", "-i|"}

\* ------------------------------------------------- impl fmt::Display for State
\* The letters written for qubit j of row i: four independent tests, the
\* last one (for Z) with the negation applied to the masked word.
FmtCell(s, i, j) ==
    (IF ~BitSet(s.x[i], j) /\ ~BitSet(s.z[i], j) THEN <<"I">> ELSE <<>>)
    \o (IF BitSet(s.x[i], j) /\ ~BitSet(s.z[i], j) THEN <<"X">> ELSE <<>>)
    \o (IF BitSet(s.x[i], j) /\ BitSet(s.z[i], j) THEN <<"Y">> ELSE <<>>)
    \o (IF NotMaskPositive(s.x[i], j) /\ BitSet(s.z[i], j) THEN <<"Z">> ELSE <<>>)

\* The letters written for qubits 0..j-1 of row i.
RECURSIVE FmtCells(_, _, _)
FmtCells(s, i, j) ==
    IF j = 0 THEN <<>> ELSE FmtCells(s, i, j - 1) \o FmtCell(s, i, j - 1)

\* The line of row i: "-" when r[i] == 2 and "+" otherwise, then the letters.
FmtRow(s, i) == <<IF s.r[i] = 2 THEN "-" ELSE "+">> \o FmtCells(s, i, s.n)

\* The line written before row n: n + 1 dashes.
FmtSeparator(s) == [d \in 1..(s.n + 1) |-> "-"]

\* The lines written for rows 0..i-1; every line is preceded by "\n".
RECURSIVE FmtRows(_, _)
FmtRows(s, i) ==
    IF i = 0 THEN <<>>
    ELSE FmtRows(s, i - 1)
         \o (IF i - 1 = s.n THEN <<FmtSeparator(s)>> ELSE <<>>)
         \o <<FmtRow(s, i - 1)>>

\* Display::fmt: the text as its lines, split at "\n"; the text starts
\* with "\n", so the first line is empty, and ends with "\n".
fmt(s) == <<<<>>>> \o FmtRows(s, 2 * s.n)

\* C25: the rendering has, after the leading line break, the n destabilizer
\* rows, one separator line and the n stabilizer rows; each row is one sign
\* character (+ for phase 0, - for phase 2) followed by exactly n Pauli
\* letters, the letter of qubit j being I, X, Y or Z for its (X, Z) bits.
C25_Rendering ==
    LET text == fmt(Cur)
        line(i) == text[IF i < n THEN i + 2 ELSE i + 3]
    IN n > 0 =>
          /\ Len(text) = 2 * n + 2
          /\ text[n + 2] = [d \in 1..(n + 1) |-> "-"]
          /\ \A i \in 0..(2 * n - 1) :
                /\ Len(line(i)) = n + 1
                /\ r[i] = 0 => line(i)[1] = "+"
                /\ r[i] = 2 => line(i)[1] = "-"
                /\ \A j \in Qubits : line(i)[j + 2] = Pauli(Cur, i, j)

====
